---- MODULE Spec2Model ----
(***************************************************************************)
(* Model of the PolyhedraGenerator front end: the App component (the       *)
(* orchestrator holding data, historyStack, loading, error and             *)
(* selectedPreset), the Controls component (activePanel, the toolbar       *)
(* buttons and their disabled expressions) and the two remote calls of     *)
(* api.js (initializePolyhedron, transformPolyhedron) whose responses      *)
(* arrive later, in any order, as separate steps of the event loop.        *)
(*                                                                         *)
(* One action is one turn of the browser's event loop: a user event with   *)
(* the synchronous part of the handler it runs (up to the first await),    *)
(* or the continuation of an awaited remote call (the rest of the try      *)
(* block, the catch and the finally).  React commits the state updates of  *)
(* a turn before the next event is dispatched, so every handler reads the  *)
(* state of the latest render.                                             *)
(***************************************************************************)
EXTENDS Naturals, Sequences, FiniteSets

VARIABLES
    data,            \* App: current snapshot, NoData for null
    historyStack,    \* App: sequence of snapshots, last element is the top
    loading,         \* App: the BUSY flag
    error,           \* App: NoError for null, else the message
    selectedPreset,  \* App: preset chosen in the select
    activePanel,     \* Controls: "none" for null, "project_sphere" or "extrude"
    inflight,        \* remote calls issued and not yet resolved
    stalled,         \* ids of in-flight calls that will never resolve
    nextId,          \* number the next issued call gets
    selectionInfo,   \* App: selection record on display, NoSelection for null
    geo,             \* PolyhedronMesh: one run of usePolyhedronGeometry
    lastEvent,       \* observer: the event handled by the last step
    probe,           \* observer: progress of an applyTransform-then-undo pair
    initsOnly        \* observer: only initialize calls so far, none failed

vars == <<data, historyStack, loading, error, selectedPreset, activePanel,
          inflight, stalled, nextId, selectionInfo, geo, lastEvent, probe,
          initsOnly>>

(* State of the viewer: written by no handler of App or Controls. *)
viewVars == <<selectionInfo, geo>>

appVars == <<data, historyStack, loading, error, inflight, nextId>>

(* Bound: total number of remote calls issued in one run. *)
MaxCalls == 3

(* ------------------------------------------------------------------ *)
(* Values                                                             *)
(* ------------------------------------------------------------------ *)

(* Preset identifiers offered by the select; "icosahedron" is the      *)
(* initial selectedPreset.                                             *)
Presets == {"icosahedron", "cube"}

DefaultPreset == "icosahedron"

(* The ids of the transformations array of Controls. *)
transformations == {"dual", "geodesic", "triangulate", "project_sphere", "extrude"}

(* hasParams of an entry of the transformations array. *)
hasParams(t) == t \in {"project_sphere", "extrude"}

ExtrusionLabel == "Face Extrusion"

(* null for the data state. *)
NoData == [preset |-> "none", history |-> <<>>]

(* null for the error state. *)
NoError == "none"

InitErrorMessage == "Failed to initialize polyhedron system."

(* ------------------------------------------------------------------ *)
(* Remote collaborator                                                *)
(* ------------------------------------------------------------------ *)

(* Label the service appends to history for a transform kind. *)
LabelOf(kind) == IF kind = "extrude" THEN ExtrusionLabel ELSE kind

(* GET /initialize/{presetName}: a snapshot with empty history. *)
ServerInitialize(presetName) == [preset |-> presetName, history |-> <<>>]

(* POST /transform/{kind}: the input's history with one label appended. *)
ServerTransform(kind, polyhedron) ==
    [polyhedron EXCEPT !.history = Append(@, LabelOf(kind))]

(* The request of initializePolyhedron(presetName). *)
initializePolyhedron(id, presetName) ==
    [id |-> id, type |-> "init", preset |-> presetName, kind |-> "-",
     polyhedron |-> NoData]

(* The request of transformPolyhedron(type, currentPolyhedron, ...). *)
transformPolyhedron(id, type, currentPolyhedron) ==
    [id |-> id, type |-> "transform", preset |-> "-", kind |-> type,
     polyhedron |-> currentPolyhedron]

(* ------------------------------------------------------------------ *)
(* Controls                                                           *)
(* ------------------------------------------------------------------ *)

(* The history prop App passes: data?.history || []. *)
historyProp == IF data = NoData THEN <<>> ELSE data.history

(* const isLocked = history && history.includes("Face Extrusion") *)
isLocked == \E i \in 1..Len(historyProp) : historyProp[i] = ExtrusionLabel

(* The disabled expression without its second branch for extrude: a   *)
(* faulty variant of Disabled.                                         *)
DisabledExceptExtrude(t) ==
    isLocked /\ t # "extrude" /\ t # "project_sphere"

(* A toolbar that never disables: a faulty variant of Disabled. *)
DisabledNever(t) == t \notin transformations

(* disabled={isLocked && t.id !== 'extrude' && t.id !== 'project_sphere'  *)
(*           ? true : (isLocked && t.id === 'extrude' ? true : false)}    *)
Disabled(t) ==
    IF isLocked /\ t # "extrude" /\ t # "project_sphere"
    THEN TRUE
    ELSE (IF isLocked /\ t = "extrude" THEN TRUE ELSE FALSE)

(* canUndo={historyStack.length > 0} *)
canUndo == Len(historyStack) > 0

(* ------------------------------------------------------------------ *)
(* App handlers, up to their first await                              *)
(* ------------------------------------------------------------------ *)

(* init: setLoading(true); setError(null); setData(null);             *)
(* setHistoryStack([]); then the call of initializePolyhedron.        *)
init(preset) ==
    /\ nextId <= MaxCalls
    /\ loading' = TRUE
    /\ error' = NoError
    /\ data' = NoData
    /\ historyStack' = <<>>
    /\ inflight' = inflight \cup {initializePolyhedron(nextId, preset)}
    /\ nextId' = nextId + 1

(* handleTransform without the loading test: a faulty variant of      *)
(* handleTransform.                                                    *)
handleTransformNoBusyGuard(type) ==
    IF data = NoData
    THEN UNCHANGED appVars
    ELSE /\ nextId <= MaxCalls
         /\ loading' = TRUE
         /\ historyStack' = Append(historyStack, data)
         /\ inflight' = inflight \cup {transformPolyhedron(nextId, type, data)}
         /\ nextId' = nextId + 1
         /\ UNCHANGED <<data, error>>

(* handleTransform without the push onto historyStack: a faulty        *)
(* variant of handleTransform.                                         *)
handleTransformNoPush(type) ==
    IF data = NoData \/ loading
    THEN UNCHANGED appVars
    ELSE /\ nextId <= MaxCalls
         /\ loading' = TRUE
         /\ inflight' = inflight \cup {transformPolyhedron(nextId, type, data)}
         /\ nextId' = nextId + 1
         /\ UNCHANGED <<data, error, historyStack>>

(* handleTransform: if (!data || loading) return; setLoading(true);    *)
(* push data onto historyStack; then the call of transformPolyhedron.  *)
handleTransform(type) ==
    IF data = NoData \/ loading
    THEN UNCHANGED appVars
    ELSE /\ nextId <= MaxCalls
         /\ loading' = TRUE
         /\ historyStack' = Append(historyStack, data)
         /\ inflight' = inflight \cup {transformPolyhedron(nextId, type, data)}
         /\ nextId' = nextId + 1
         /\ UNCHANGED <<data, error>>

(* handleUndo restoring the bottom entry, historyStack[0], in place of *)
(* the top one: a faulty variant of handleUndo.                        *)
handleUndoBottom ==
    IF Len(historyStack) = 0 \/ loading
    THEN UNCHANGED appVars
    ELSE /\ historyStack' = SubSeq(historyStack, 1, Len(historyStack) - 1)
         /\ data' = historyStack[1]
         /\ UNCHANGED <<loading, error, inflight, nextId>>

(* handleUndo without setData(prev): a faulty variant of handleUndo. *)
handleUndoPopOnly ==
    IF Len(historyStack) = 0 \/ loading
    THEN UNCHANGED appVars
    ELSE /\ historyStack' = SubSeq(historyStack, 1, Len(historyStack) - 1)
         /\ UNCHANGED <<data, loading, error, inflight, nextId>>

(* handleUndo: if (historyStack.length === 0 || loading) return;       *)
(* prev = top; setHistoryStack(slice(0, -1)); setData(prev).           *)
handleUndo ==
    IF Len(historyStack) = 0 \/ loading
    THEN UNCHANGED appVars
    ELSE /\ historyStack' = SubSeq(historyStack, 1, Len(historyStack) - 1)
         /\ data' = historyStack[Len(historyStack)]
         /\ UNCHANGED <<loading, error, inflight, nextId>>

(* handleReset: init() with the selectedPreset of the render. *)
handleReset == init(selectedPreset)

(* ------------------------------------------------------------------ *)
(* Observers                                                          *)
(* ------------------------------------------------------------------ *)

Event(op, kind, id, ok) == [op |-> op, kind |-> kind, id |-> id, ok |-> ok]

NoProbe == [phase |-> "none", S |-> NoData, id |-> 0, outcome |-> "-"]

(* The phase of an applyTransform-then-undo pair: "applied" once a     *)
(* transform was accepted with snapshot S current, "resolved" once its *)
(* remote call has resolved, "undone" right after the undo that        *)
(* follows.  Any other user event ends the pair; responses of other    *)
(* calls do not.                                                       *)
NextProbe(ev) ==
    IF ev.op = "transform" /\ ev.ok
    THEN [phase |-> "applied", S |-> data, id |-> ev.id, outcome |-> "-"]
    ELSE IF /\ ev.op \in {"transformOk", "transformFail"}
            /\ probe.phase = "applied"
            /\ ev.id = probe.id
    THEN [probe EXCEPT !.phase = "resolved", !.outcome = ev.op]
    ELSE IF ev.op = "undo" /\ ev.ok /\ probe.phase = "resolved"
    THEN [probe EXCEPT !.phase = "undone"]
    ELSE IF /\ ev.op \in {"initOk", "initFail", "transformOk", "transformFail", "stall"}
            /\ probe.phase \in {"applied", "resolved"}
    THEN probe
    ELSE NoProbe

(* TRUE as long as every call issued was an initialize, none of them  *)
(* failed or stalled, and no undo took effect.                         *)
NextInitsOnly(ev) ==
    /\ initsOnly
    /\ ~(ev.op \in {"transform", "undo"} /\ ev.ok)
    /\ ev.op \notin {"initFail", "transformOk", "transformFail", "stall"}

Observe(ev) ==
    /\ lastEvent' = ev
    /\ probe' = NextProbe(ev)
    /\ initsOnly' = NextInitsOnly(ev)

(* ------------------------------------------------------------------ *)
(* User events                                                        *)
(* ------------------------------------------------------------------ *)

(* Controls.handleClick(t), reached only through an enabled button. *)
handleClick(t) ==
    IF hasParams(t)
    THEN /\ activePanel' = (IF activePanel = t THEN "none" ELSE t)
         /\ UNCHANGED appVars
    ELSE /\ activePanel' = "none"
         /\ handleTransform(t)

(* A click on the toolbar button of transformation t; a disabled button *)
(* dispatches no click.                                                 *)
ClickTransformButton(t) ==
    /\ IF Disabled(t)
       THEN UNCHANGED <<appVars, activePanel>>
       ELSE handleClick(t)
    /\ Observe(Event(IF hasParams(t) THEN "panel" ELSE "transform", t, nextId,
                     IF hasParams(t) THEN activePanel' # activePanel
                                     ELSE nextId' # nextId))
    /\ UNCHANGED <<selectedPreset, stalled>>
    /\ UNCHANGED viewVars

(* Controls.handleApplyParam(id): the APPLY / EXECUTE button of the   *)
(* panel that is open.                                                *)
handleApplyParam(id) ==
    /\ activePanel = id
    /\ handleTransform(id)
    /\ Observe(Event("transform", id, nextId, nextId' # nextId))
    /\ UNCHANGED <<selectedPreset, activePanel, stalled>>
    /\ UNCHANGED viewVars

(* The UNDO button with both tests removed: a faulty variant of ClickUndo. *)
ClickUndoUnguarded ==
    /\ historyStack' = (IF Len(historyStack) = 0 THEN <<>>
                        ELSE SubSeq(historyStack, 1, Len(historyStack) - 1))
    /\ data' = (IF Len(historyStack) = 0 THEN NoData
                ELSE historyStack[Len(historyStack)])
    /\ UNCHANGED <<loading, error, inflight, nextId>>
    /\ Observe(Event("undo", "-", 0, historyStack' # historyStack))
    /\ UNCHANGED <<selectedPreset, activePanel, stalled>>
    /\ UNCHANGED viewVars

(* A click on UNDO (disabled={!canUndo}, onClick={onUndo}). *)
ClickUndo ==
    /\ IF canUndo THEN handleUndo ELSE UNCHANGED appVars
    /\ Observe(Event("undo", "-", 0, historyStack' # historyStack))
    /\ UNCHANGED <<selectedPreset, activePanel, stalled>>
    /\ UNCHANGED viewVars

(* A click on RESET (never disabled). *)
ClickReset ==
    /\ handleReset
    /\ Observe(Event("reset", selectedPreset, nextId, TRUE))
    /\ UNCHANGED <<selectedPreset, activePanel, stalled>>
    /\ UNCHANGED viewVars

(* The select's onChange: setSelectedPreset(p), and the effect on      *)
(* [selectedPreset] then runs init() with the new preset.              *)
onPresetChange(p) ==
    /\ p # selectedPreset
    /\ selectedPreset' = p
    /\ init(p)
    /\ Observe(Event("preset", p, nextId, TRUE))
    /\ UNCHANGED <<activePanel, stalled>>
    /\ UNCHANGED viewVars

(* REBOOT on the error overlay: init(). *)
ClickReboot ==
    /\ error # NoError
    /\ init(selectedPreset)
    /\ Observe(Event("reboot", selectedPreset, nextId, TRUE))
    /\ UNCHANGED <<selectedPreset, activePanel, stalled>>
    /\ UNCHANGED viewVars

(* DISMISS on the error overlay: setError(null). *)
ClickDismiss ==
    /\ error # NoError
    /\ error' = NoError
    /\ Observe(Event("dismiss", "-", 0, TRUE))
    /\ UNCHANGED <<data, historyStack, loading, inflight, nextId,
                   selectedPreset, activePanel, stalled>>
    /\ UNCHANGED viewVars

(* ------------------------------------------------------------------ *)
(* Remote responses: the continuations after the awaits               *)
(* ------------------------------------------------------------------ *)

Pending(r) == r \in inflight /\ r.id \notin stalled

(* init after a resolved await: setData(poly); finally setLoading(false). *)
InitResolved(r) ==
    /\ Pending(r) /\ r.type = "init"
    /\ data' = ServerInitialize(r.preset)
    /\ loading' = FALSE
    /\ inflight' = inflight \ {r}
    /\ Observe(Event("initOk", r.preset, r.id, TRUE))
    /\ UNCHANGED <<historyStack, error, nextId, selectedPreset, activePanel, stalled>>
    /\ UNCHANGED viewVars

(* init without its finally block: a faulty variant of InitRejected. *)
InitRejectedNoFinally(r) ==
    /\ Pending(r) /\ r.type = "init"
    /\ error' = InitErrorMessage
    /\ inflight' = inflight \ {r}
    /\ Observe(Event("initFail", r.preset, r.id, TRUE))
    /\ UNCHANGED <<data, historyStack, loading, nextId, selectedPreset,
                   activePanel, stalled>>
    /\ UNCHANGED viewVars

(* init after a rejected await: setError(...); finally setLoading(false). *)
InitRejected(r) ==
    /\ Pending(r) /\ r.type = "init"
    /\ error' = InitErrorMessage
    /\ loading' = FALSE
    /\ inflight' = inflight \ {r}
    /\ Observe(Event("initFail", r.preset, r.id, TRUE))
    /\ UNCHANGED <<data, historyStack, nextId, selectedPreset, activePanel, stalled>>
    /\ UNCHANGED viewVars

(* handleTransform after a resolved await: setData(newData); finally   *)
(* setLoading(false).                                                  *)
TransformResolved(r) ==
    /\ Pending(r) /\ r.type = "transform"
    /\ data' = ServerTransform(r.kind, r.polyhedron)
    /\ loading' = FALSE
    /\ inflight' = inflight \ {r}
    /\ Observe(Event("transformOk", r.kind, r.id, TRUE))
    /\ UNCHANGED <<historyStack, error, nextId, selectedPreset, activePanel, stalled>>
    /\ UNCHANGED viewVars

(* A failed transform that also pops the pushed entry: a faulty       *)
(* variant of TransformRejected.                                       *)
TransformRejectedPops(r) ==
    /\ Pending(r) /\ r.type = "transform"
    /\ loading' = FALSE
    /\ inflight' = inflight \ {r}
    /\ historyStack' = (IF Len(historyStack) = 0 THEN <<>>
                        ELSE SubSeq(historyStack, 1, Len(historyStack) - 1))
    /\ Observe(Event("transformFail", r.kind, r.id, TRUE))
    /\ UNCHANGED <<data, error, nextId, selectedPreset, activePanel, stalled>>
    /\ UNCHANGED viewVars

(* handleTransform after a rejected await: alert(...); finally         *)
(* setLoading(false).                                                  *)
TransformRejected(r) ==
    /\ Pending(r) /\ r.type = "transform"
    /\ loading' = FALSE
    /\ inflight' = inflight \ {r}
    /\ Observe(Event("transformFail", r.kind, r.id, TRUE))
    /\ UNCHANGED <<data, historyStack, error, nextId, selectedPreset, activePanel, stalled>>
    /\ UNCHANGED viewVars

(* A call whose promise never settles: there is no timeout and no      *)
(* cancellation, so it stays in flight for ever.                       *)
NeverResolves(r) ==
    /\ Pending(r)
    /\ stalled' = stalled \cup {r.id}
    /\ Observe(Event("stall", r.kind, r.id, TRUE))
    /\ UNCHANGED <<data, historyStack, loading, error, inflight, nextId,
                   selectedPreset, activePanel>>
    /\ UNCHANGED viewVars

(* ------------------------------------------------------------------ *)
(* Viewer: usePolyhedronGeometry                                      *)
(* ------------------------------------------------------------------ *)

(* Bounds of the meshes given to usePolyhedronGeometry: vertex ids    *)
(* 0..MaxVertexId, faces of 3..MaxFaceLen ids.                        *)
MaxVertexId == 3

MaxFaceLen == 4

VertexIds == 0..MaxVertexId

(* Faces: closed loops of 3..MaxFaceLen distinct vertex ids. *)
FacesOfLen(n) ==
    {f \in [1..n -> VertexIds] : \A i, j \in 1..n : i # j => f[i] # f[j]}

FaceCandidates == UNION {FacesOfLen(n) : n \in 3..MaxFaceLen}

(* Edge lists a snapshot may supply. *)
EdgeLists ==
    {<<>>, <<<<0, 1>>>>, <<<<1, 0>>, <<0, 1>>>>, <<<<2, MaxVertexId>>, <<0, 1>>>>}

(* A snapshot as usePolyhedronGeometry reads it: nv = vertices.length, *)
(* faces, and edges (hasEdges FALSE for an absent edges field).        *)
Mesh(nv, faces, hasEdges, edges) ==
    [nv |-> nv, faces |-> faces, hasEdges |-> hasEdges, edges |-> edges]

(* for (let i = 1; i < face.length; i++): a faulty variant of FanLoop  *)
(* that runs one step too far and reads past the end of the face.      *)
RECURSIVE FanLoopTooFar(_, _, _)
FanLoopTooFar(face, i, indices) ==
    IF i < Len(face)
    THEN FanLoopTooFar(face, i + 1,
             indices \o <<face[1], face[i + 1],
                          IF i + 2 <= Len(face) THEN face[i + 2] ELSE face[1]>>)
    ELSE indices

(* for (let i = 1; i < face.length - 1; i++)                           *)
(*     indices.push(face[0], face[i], face[i + 1]);                    *)
(* JS index k is position k + 1 of the sequence.                       *)
RECURSIVE FanLoop(_, _, _)
FanLoop(face, i, indices) ==
    IF i < Len(face) - 1
    THEN FanLoop(face, i + 1, indices \o <<face[1], face[i + 1], face[i + 2]>>)
    ELSE indices

(* faces.forEach(face => { fan loop }) from face number k on. *)
RECURSIVE TriangulateFaces(_, _, _)
TriangulateFaces(faces, k, indices) ==
    IF k <= Len(faces)
    THEN TriangulateFaces(faces, k + 1, FanLoop(faces[k], 1, indices))
    ELSE indices

(* The decimal digits of String(n). *)
DigitChar(d) ==
    CASE d = 0 -> "0" [] d = 1 -> "1" [] d = 2 -> "2" [] d = 3 -> "3"
      [] d = 4 -> "4" [] d = 5 -> "5" [] d = 6 -> "6" [] d = 7 -> "7"
      [] d = 8 -> "8" [] d = 9 -> "9"

RECURSIVE NumberToString(_)
NumberToString(n) ==
    IF n < 10 THEN <<DigitChar(n)>>
    ELSE NumberToString(n \div 10) \o <<DigitChar(n % 10)>>

(* A key that keeps the order of the pair: a faulty variant of EdgeKey. *)
EdgeKeyDirected(a, b) == NumberToString(a) \o <<",">> \o NumberToString(b)

(* const key = a < b ? `${a},${b}` : `${b},${a}` *)
EdgeKey(a, b) ==
    IF a < b
    THEN NumberToString(a) \o <<",">> \o NumberToString(b)
    ELSE NumberToString(b) \o <<",">> \o NumberToString(a)

(* Number(part) for a string of decimal digits. *)
DigitValue(c) == CHOOSE d \in 0..9 : DigitChar(d) = c

RECURSIVE StringToNumber(_)
StringToNumber(str) ==
    IF Len(str) = 0 THEN 0
    ELSE 10 * StringToNumber(SubSeq(str, 1, Len(str) - 1)) + DigitValue(str[Len(str)])

(* edge.split(',').map(Number) for a key with one comma. *)
SplitKey(key) ==
    LET c == CHOOSE i \in 1..Len(key) : key[i] = ","
    IN  <<StringToNumber(SubSeq(key, 1, c - 1)),
          StringToNumber(SubSeq(key, c + 1, Len(key)))>>

(* distinctEdges.add(key): a Set keeps insertion order and ignores a   *)
(* key it holds already.                                               *)
SetAdd(set, key) ==
    IF \E i \in 1..Len(set) : set[i] = key THEN set ELSE Append(set, key)

(* The inner loop over the consecutive pairs of one face, the          *)
(* wrap-around pair included: b = face[(i + 1) % face.length].         *)
RECURSIVE FaceEdgesLoop(_, _, _)
FaceEdgesLoop(face, i, distinctEdges) ==
    IF i < Len(face)
    THEN FaceEdgesLoop(face, i + 1,
             SetAdd(distinctEdges,
                    EdgeKey(face[i + 1], face[((i + 1) % Len(face)) + 1])))
    ELSE distinctEdges

RECURSIVE DeriveEdges(_, _, _)
DeriveEdges(faces, k, distinctEdges) ==
    IF k <= Len(faces)
    THEN DeriveEdges(faces, k + 1, FaceEdgesLoop(faces[k], 0, distinctEdges))
    ELSE distinctEdges

(* forEach push(a, b) over a list of pairs. *)
RECURSIVE PushPairs(_, _, _)
PushPairs(pairs, k, edgeIndices) ==
    IF k <= Len(pairs)
    THEN PushPairs(pairs, k + 1, edgeIndices \o <<pairs[k][1], pairs[k][2]>>)
    ELSE edgeIndices

(* distinctEdges.forEach(edge => { [a, b] = split; push(a, b) }) *)
RECURSIVE PushKeys(_, _, _)
PushKeys(keys, k, edgeIndices) ==
    IF k <= Len(keys)
    THEN PushKeys(keys, k + 1, edgeIndices \o SplitKey(keys[k]))
    ELSE edgeIndices

(* The edge skeleton: the supplied edges if (edges && edges.length > 0), *)
(* else the edges derived from the faces.                                *)
EdgeIndices(mesh) ==
    IF mesh.hasEdges /\ Len(mesh.edges) > 0
    THEN PushPairs(mesh.edges, 1, <<>>)
    ELSE PushKeys(DeriveEdges(mesh.faces, 1, <<>>), 1, <<>>)

(* usePolyhedronGeometry(data) for a non-null data: the index buffers  *)
(* set on meshGeometry and edgeGeometry over nv positions.  Nothing    *)
(* in it validates an index and nothing throws.                        *)
usePolyhedronGeometry(mesh) ==
    [status |-> "ok",
     positions |-> mesh.nv,
     indices |-> TriangulateFaces(mesh.faces, 1, <<>>),
     edgeIndices |-> EdgeIndices(mesh)]

NoMesh == Mesh(0, <<>>, FALSE, <<>>)

NoBuffers == [status |-> "none", positions |-> 0, indices |-> <<>>, edgeIndices |-> <<>>]

GeoIdle == [pc |-> "idle", mesh |-> NoMesh, out |-> NoBuffers]

(* The meshes rendered: one or two faces with edges absent, or one     *)
(* face with an edges list; vertices.length is MaxVertexId + 1 (every  *)
(* id valid) or MaxVertexId (the id MaxVertexId out of range).         *)
MeshInputs ==
    {Mesh(nv, fs, FALSE, <<>>) :
        nv \in {MaxVertexId, MaxVertexId + 1},
        fs \in {<<f>> : f \in FaceCandidates}
               \cup {<<f, g>> : f \in FaceCandidates, g \in FaceCandidates}}
    \cup
    {Mesh(nv, <<f>>, TRUE, es) :
        nv \in {MaxVertexId, MaxVertexId + 1},
        f \in FaceCandidates, es \in EdgeLists}

(* One evaluation of the useMemo body for the data prop. *)
Synthesize ==
    /\ geo.pc = "input"
    /\ geo' = [geo EXCEPT !.pc = "done", !.out = usePolyhedronGeometry(geo.mesh)]
    /\ UNCHANGED <<data, historyStack, loading, error, selectedPreset, activePanel,
                   inflight, stalled, nextId, selectionInfo, lastEvent, probe,
                   initsOnly>>

(* ------------------------------------------------------------------ *)
(* Viewer: selection                                                  *)
(* ------------------------------------------------------------------ *)

(* Bound: the primitives clicked are those of index 0..MaxSelIndex,    *)
(* which every polyhedron has.                                          *)
MaxSelIndex == 1

NoSelection == [type |-> "none", index |-> 0, of |-> NoData]

(* PolyhedronMesh.handleClick / handleVertexClick: onSelect({type,     *)
(* index, point, distance}), with onSelect = setSelectionInfo.  The     *)
(* viewer is mounted only while data is set.  Field of records the      *)
(* snapshot whose primitive was hit; point and distance are left out.   *)
onSelect(type, index) ==
    /\ data # NoData
    /\ selectionInfo' = [type |-> type, index |-> index, of |-> data]
    /\ UNCHANGED <<data, historyStack, loading, error, selectedPreset, activePanel,
                   inflight, stalled, nextId, geo>>
    /\ Observe(Event("select", type, index, TRUE))

(* ------------------------------------------------------------------ *)
(* Specification                                                      *)
(* ------------------------------------------------------------------ *)

(* The state after the first render and its effect: useState defaults, *)
(* then init() run by useEffect for the initial selectedPreset.        *)
AppInit ==
    /\ data = NoData
    /\ historyStack = <<>>
    /\ loading = TRUE
    /\ error = NoError
    /\ selectedPreset = DefaultPreset
    /\ activePanel = "none"
    /\ inflight = {initializePolyhedron(1, DefaultPreset)}
    /\ stalled = {}
    /\ nextId = 2
    /\ selectionInfo = NoSelection
    /\ lastEvent = Event("mount", DefaultPreset, 1, TRUE)
    /\ probe = NoProbe
    /\ initsOnly = TRUE

Init == AppInit /\ geo = GeoIdle

Next ==
    \/ \E t \in transformations : ClickTransformButton(t)
    \/ \E id \in {"project_sphere", "extrude"} : handleApplyParam(id)
    \/ ClickUndo
    \/ ClickReset
    \/ \E p \in Presets : onPresetChange(p)
    \/ ClickReboot
    \/ ClickDismiss
    \/ \E r \in inflight : InitResolved(r)
    \/ \E r \in inflight : InitRejected(r)
    \/ \E r \in inflight : TransformResolved(r)
    \/ \E r \in inflight : TransformRejected(r)
    \/ \E r \in inflight : NeverResolves(r)

Spec == Init /\ [][Next]_vars

(* Every call that can still settle does settle: the event loop runs   *)
(* the continuation of a promise once it is resolved or rejected.      *)
Settle ==
    \E r \in inflight :
        InitResolved(r) \/ InitRejected(r) \/ TransformResolved(r) \/ TransformRejected(r)

FairSpec == Spec /\ WF_vars(Settle)

(* The application with the viewer's clicks. *)
SelectNext ==
    \/ Next
    \/ \E i \in 0..MaxSelIndex : onSelect("FACE", i)
    \/ \E i \in 0..MaxSelIndex : onSelect("VERTEX", i)

SelectSpec == Init /\ [][SelectNext]_vars

(* usePolyhedronGeometry applied to each mesh of MeshInputs. *)
GeomInit ==
    /\ AppInit
    /\ geo \in {[pc |-> "input", mesh |-> m, out |-> NoBuffers] : m \in MeshInputs}

GeomNext == Synthesize

GeomSpec == GeomInit /\ [][GeomNext]_vars

(* ------------------------------------------------------------------ *)
(* Properties                                                         *)
(* ------------------------------------------------------------------ *)

StructuralKinds == transformations \ {"extrude", "project_sphere"}

(* C1: at most one initialize/transform remote call is in flight at any *)
(* time, under every interleaving of intents and responses.             *)
AtMostOneCallInFlight == Cardinality(inflight) <= 1

(* C2: from an IDLE state with current snapshot S, an accepted          *)
(* applyTransform followed, with no other intent in between, by undo    *)
(* once the remote call has resolved (success or failure) leaves the    *)
(* current snapshot equal to S.                                         *)
TransformThenUndoRestores == probe.phase = "undone" => data = probe.S

TransformThenUndoReached ==
    /\ probe.phase = "undone"
    /\ probe.outcome = "transformOk"
    /\ lastEvent.op = "undo"
    /\ probe.S # NoData

(* C3: the response of a failed transform call leaves the current       *)
(* snapshot and the HistoryStack (with the entry pushed for the         *)
(* attempt) as they were and clears the BUSY flag.                      *)
FailedTransformKeepsState ==
    [][lastEvent'.op = "transformFail" =>
          /\ data' = data
          /\ historyStack' = historyStack
          /\ loading' = FALSE]_vars

FailedTransformReached ==
    /\ lastEvent.op = "transformFail"
    /\ ~loading
    /\ Len(historyStack) > 0
    /\ historyStack[Len(historyStack)] = data

(* C4: while the current snapshot's history contains the extrusion      *)
(* label, an intent of kind dual, geodesic or triangulate issues no     *)
(* remote call and leaves HistoryStack and current snapshot unchanged.  *)
LockedStructuralIntentRejected ==
    [][(/\ lastEvent'.op = "transform"
        /\ lastEvent'.kind \in StructuralKinds
        /\ isLocked) =>
          UNCHANGED <<data, historyStack, inflight, nextId>>]_vars

LockedStructuralIntentReached ==
    /\ lastEvent.op = "transform"
    /\ lastEvent.kind = "dual"
    /\ ~lastEvent.ok
    /\ isLocked
    /\ ~loading

(* C5: an applyTransform is accepted only when IDLE with a current      *)
(* snapshot, an undo only when IDLE with a non-empty HistoryStack, and  *)
(* either intent arriving while BUSY changes nothing and issues no      *)
(* remote call.                                                         *)
IntentsAcceptedOnlyWhenIdle ==
    [][/\ (lastEvent'.op = "transform" /\ inflight' # inflight =>
              ~loading /\ data # NoData)
       /\ (lastEvent'.op = "undo" /\ <<data, historyStack>>' # <<data, historyStack>> =>
              ~loading /\ Len(historyStack) > 0)
       /\ (lastEvent'.op \in {"transform", "undo"} /\ loading =>
              UNCHANGED appVars)]_vars

IntentWhileBusyReached ==
    /\ lastEvent.op = "undo"
    /\ ~lastEvent.ok
    /\ loading
    /\ Len(historyStack) > 0

(* C6: whenever an initialize fetch completes successfully, the current *)
(* snapshot is the one it returned and HistoryStack is empty.           *)
InitSuccessLeavesFreshState ==
    lastEvent.op = "initOk" =>
        /\ data = ServerInitialize(lastEvent.kind)
        /\ historyStack = <<>>

(* C7: whenever an initialize fetch fails, an initialization error is   *)
(* surfaced, the BUSY flag is cleared and the current snapshot is null. *)
InitFailureLeavesSnapshotEmpty ==
    lastEvent.op = "initFail" =>
        /\ error # NoError
        /\ ~loading
        /\ data = NoData

(* C8: an undo intent on an empty HistoryStack changes neither the      *)
(* current snapshot, HistoryStack, the BUSY flag nor the error state    *)
(* and issues no remote call.                                           *)
UndoOnEmptyStackIsNoOp ==
    [][lastEvent'.op = "undo" /\ historyStack = <<>> => UNCHANGED appVars]_vars

UndoOnEmptyStackReached ==
    /\ lastEvent.op = "undo"
    /\ ~lastEvent.ok
    /\ historyStack = <<>>
    /\ ~loading
    /\ data # NoData

(* An extrude intent can be issued: through the toolbar button that     *)
(* opens the panel, or through EXECUTE of a panel that is open.         *)
ExtrudeAvailable == ~Disabled("extrude") \/ activePanel = "extrude"

SphereAvailable == ~Disabled("project_sphere") \/ activePanel = "project_sphere"

(* C9 as stated: while the lock is true every transformation other than *)
(* extrude and project_sphere is disabled and those two both remain     *)
(* available.                                                           *)
LockedKeepsExtrudeAndSphere ==
    isLocked =>
        /\ \A t \in StructuralKinds : Disabled(t)
        /\ ExtrudeAvailable
        /\ SphereAvailable

(* C9 amended: while the lock is true the toolbar buttons of dual,      *)
(* geodesic, triangulate and extrude are disabled and that of           *)
(* project_sphere is enabled; extrude can be issued only through        *)
(* EXECUTE of an extrude panel that is still open.                      *)
LockedToolbar ==
    isLocked =>
        /\ \A t \in transformations \ {"project_sphere"} : Disabled(t)
        /\ ~Disabled("project_sphere")
        /\ (ExtrudeAvailable <=> activePanel = "extrude")

LockedToolbarReached ==
    /\ isLocked
    /\ ~loading
    /\ activePanel = "project_sphere"

(* C10: once a remote call that never resolves has been issued, the     *)
(* BUSY flag is set in every later state, whatever the user does.       *)
StalledCallKeepsBusy == stalled # {} => loading

(* C11: if every issued call eventually resolves and the user stops     *)
(* issuing calls, the Orchestrator eventually is IDLE with no request   *)
(* in flight and stays so.                                              *)
EventuallyIdleForGood ==
    <>(stalled # {}) \/ <>[](~loading /\ inflight = {})

IdleAfterAllCallsReached ==
    /\ ~loading
    /\ inflight = {}
    /\ stalled = {}
    /\ nextId > MaxCalls

(* Number of ids the fan loop pushes for the faces before face k. *)
RECURSIVE IndexOffset(_, _)
IndexOffset(faces, k) ==
    IF k <= 1 THEN 0
    ELSE IndexOffset(faces, k - 1) + 3 * (Len(faces[k - 1]) - 2)

FaceIds(face) == {face[i] : i \in 1..Len(face)}

(* C12: for every face [v0..vn-1], n >= 3, synthesis emits exactly the  *)
(* n-2 triangles (v0, vi, vi+1), i = 1..n-2, in face order: the buffer  *)
(* holds sum of (n-2) triples, each with ids of its own face only.      *)
FanTriangulationExact ==
    geo.pc = "done" =>
        LET faces == geo.mesh.faces
            indices == geo.out.indices
        IN  /\ Len(indices) = IndexOffset(faces, Len(faces) + 1)
            /\ \A k \in 1..Len(faces) : \A i \in 1..(Len(faces[k]) - 2) :
                 LET at == IndexOffset(faces, k) + 3 * (i - 1)
                 IN  /\ indices[at + 1] = faces[k][1]
                     /\ indices[at + 2] = faces[k][i + 1]
                     /\ indices[at + 3] = faces[k][i + 2]
                     /\ {indices[at + 1], indices[at + 2], indices[at + 3]}
                            \subseteq FaceIds(faces[k])

FanTriangulationReached ==
    /\ geo.pc = "done"
    /\ Len(geo.mesh.faces) = 2
    /\ Len(geo.mesh.faces[1]) = 4
    /\ Len(geo.mesh.faces[2]) = 3
    /\ Len(geo.out.indices) = 9

(* The pairs held by a flat buffer of vertex-id pairs. *)
PairsOf(buffer) == [k \in 1..(Len(buffer) \div 2) |-> <<buffer[2 * k - 1], buffer[2 * k]>>]

Min(a, b) == IF a < b THEN a ELSE b

Max(a, b) == IF a < b THEN b ELSE a

(* The undirected pairs of consecutive vertices of the faces, the       *)
(* wrap-around pair included, as (min, max).                            *)
ConsecutivePairs(faces) ==
    UNION {{<<Min(faces[k][i], faces[k][(i % Len(faces[k])) + 1]),
              Max(faces[k][i], faces[k][(i % Len(faces[k])) + 1])>> :
               i \in 1..Len(faces[k])} : k \in 1..Len(faces)}

Reverse(seq) == [i \in 1..Len(seq) |-> seq[Len(seq) + 1 - i]]

EdgesDerived(mesh) == ~(mesh.hasEdges /\ Len(mesh.edges) > 0)

PairSet(buffer) == {PairsOf(buffer)[k] : k \in 1..Len(PairsOf(buffer))}

(* C13: edges derived from faces hold each undirected pair of           *)
(* consecutive face vertices exactly once, as (min, max), and the set   *)
(* is the same for the faces in another order or winding.               *)
DerivedEdgesOnceEach ==
    geo.pc = "done" /\ EdgesDerived(geo.mesh) =>
        LET faces == geo.mesh.faces
            pairs == PairsOf(geo.out.edgeIndices)
        IN  /\ {pairs[k] : k \in 1..Len(pairs)} = ConsecutivePairs(faces)
            /\ \A j, k \in 1..Len(pairs) : pairs[j] = pairs[k] => j = k
            /\ \A k \in 1..Len(pairs) : pairs[k][1] <= pairs[k][2]
            /\ PairSet(EdgeIndices([geo.mesh EXCEPT !.faces = Reverse(faces)]))
                   = PairSet(geo.out.edgeIndices)
            /\ PairSet(EdgeIndices([geo.mesh EXCEPT !.faces =
                                       [k \in 1..Len(faces) |-> Reverse(faces[k])]]))
                   = PairSet(geo.out.edgeIndices)

DerivedEdgesReached ==
    /\ geo.pc = "done"
    /\ ~geo.mesh.hasEdges
    /\ geo.mesh.faces = <<<<0, 1, 2>>, <<0, 2, 3>>>>
    /\ Len(geo.out.edgeIndices) = 10

(* C14: synthesis either returns buffers whose triangle and edge        *)
(* indices are all valid positions, or fails with a                     *)
(* MalformedPolyhedronError; it never returns an out-of-range index.    *)
BuffersValidOrError ==
    geo.pc = "done" =>
        \/ geo.out.status = "MalformedPolyhedronError"
        \/ /\ \A i \in 1..Len(geo.out.indices) : geo.out.indices[i] < geo.out.positions
           /\ \A i \in 1..Len(geo.out.edgeIndices) :
                  geo.out.edgeIndices[i] < geo.out.positions

(* C15: the Orchestrator is BUSY exactly when an initialize or          *)
(* transform call is in flight.                                         *)
BusyIffCallInFlight == loading <=> inflight # {}

(* C16: HistoryStack changes only by an accepted applyTransform, which  *)
(* appends the snapshot sent in its request, by an accepted undo, which *)
(* removes the top entry, and by initialize/reset, which empties it;    *)
(* responses and rejected intents leave it unchanged.                   *)
HistoryStackChangesOnlyByIntents ==
    [][/\ (lastEvent'.op = "transform" /\ inflight' # inflight =>
              \E r \in inflight' \ inflight :
                  /\ r.type = "transform"
                  /\ inflight' = inflight \cup {r}
                  /\ historyStack' = Append(historyStack, r.polyhedron))
       /\ (lastEvent'.op = "transform" /\ inflight' = inflight =>
              historyStack' = historyStack)
       /\ (lastEvent'.op = "undo" =>
              \/ historyStack' = historyStack /\ data' = data
              \/ /\ Len(historyStack) > 0
                 /\ historyStack' = SubSeq(historyStack, 1, Len(historyStack) - 1))
       /\ (lastEvent'.op \in {"reset", "preset", "reboot"} => historyStack' = <<>>)
       /\ (lastEvent'.op \in {"initOk", "initFail", "transformOk", "transformFail",
                              "stall", "dismiss", "panel"} =>
              historyStack' = historyStack)]_vars

HistoryStackGrowthReached ==
    /\ lastEvent.op = "transform"
    /\ lastEvent.ok
    /\ Len(historyStack) = 2
    /\ loading

HasExtrusion(snapshot) ==
    \E i \in 1..Len(snapshot.history) : snapshot.history[i] = ExtrusionLabel

(* C17: the lock equals whether the current snapshot's history holds    *)
(* the extrusion label (false without a snapshot); after an undo it is  *)
(* that of the restored snapshot, so undoing to a snapshot taken before *)
(* the extrusion clears it and re-enables dual/geodesic/triangulate.    *)
LockFollowsCurrentSnapshot ==
    [][/\ (isLocked' <=> (data' # NoData /\ HasExtrusion(data')))
       /\ (lastEvent'.op = "undo" /\ historyStack' # historyStack =>
              LET restored == historyStack[Len(historyStack)]
              IN  /\ isLocked' <=> HasExtrusion(restored)
                  /\ ~HasExtrusion(restored) =>
                         \A t \in StructuralKinds : ~Disabled(t)')]_vars

UndoClearsLockReached ==
    /\ probe.phase = "undone"
    /\ probe.outcome = "transformOk"
    /\ activePanel = "extrude"
    /\ data # NoData
    /\ ~isLocked

(* C18: after preset changes and resets only, once every call has       *)
(* resolved successfully the current snapshot is the response to the    *)
(* initialize issued last, the snapshot of the selected preset.         *)
LatestInitializeWins ==
    initsOnly /\ inflight = {} => data = ServerInitialize(selectedPreset)

(* C19: every entry of HistoryStack derives from the response to the    *)
(* initialize issued last (always one for selectedPreset), so no undo   *)
(* makes a snapshot of an earlier initialize current.                   *)
HistoryFromLatestInitialize ==
    /\ \A i \in 1..Len(historyStack) : historyStack[i].preset = selectedPreset
    /\ (lastEvent.op = "undo" /\ lastEvent.ok => data.preset = selectedPreset)

(* C20: a selection record on display refers to a primitive of the      *)
(* render buffers of the current snapshot, never to one of an earlier   *)
(* snapshot.                                                            *)
SelectionOfCurrentSnapshot ==
    selectionInfo # NoSelection =>
        /\ data # NoData
        /\ selectionInfo.of = data


(* The supplied pairs laid out flat, in the given order. *)
SuppliedPairsFlat(edges) ==
    [i \in 1..(2 * Len(edges)) |-> edges[(i + 1) \div 2][2 - (i % 2)]]

(* C21: whenever the snapshot supplies an edges list, the edge buffer   *)
(* is exactly its pairs in the given order (duplicates and missing      *)
(* edges included, nothing derived from the faces); edges are derived   *)
(* from the faces only when the edges list is absent.                   *)
SuppliedEdgesUsedDirectly ==
    geo.pc = "done" /\ geo.mesh.hasEdges =>
        geo.out.edgeIndices = SuppliedPairsFlat(geo.mesh.edges)

====
